---- MODULE Spec2Model ----
(***************************************************************************)
(* Model of gistia/tex (src/src/main.rs): an axum service with two         *)
(* handlers, analyze_image and display_image, over Textract blocks.        *)
(*                                                                         *)
(* Representation.                                                         *)
(*   Option<T>  : a sequence of length <= 1 (None == <<>>, Some(x) == <<x>>)*)
(*   String     : a sequence of one-character strings                      *)
(*   f32 in [0,1] of a BoundingBox : a numerator over Den (exact rational  *)
(*                arithmetic; f32 rounding of the product is not modelled) *)
(*   HashMap    : a function whose DOMAIN is the key set; its iteration    *)
(*                order is any permutation of the key set                  *)
(***************************************************************************)
EXTENDS Integers, Sequences, FiniteSets, TLC

VARIABLES
    pc,               \* position of the current request / function application
    op,               \* which handler runs: "analyze" | "display" | "none"
    document,         \* the block list Textract holds for the image
    blocks,           \* resp.blocks() of the current request
    block_map,        \* extract_key_value_pairs: id -> block
    key_map,          \* extract_key_value_pairs: id -> KEY block
    value_map,        \* extract_key_value_pairs: id -> non-KEY KeyValueSet block
    key_value_pairs,  \* the Vec<KeyValuePair> being built / sorted / drawn
    unsorted,         \* history: key_value_pairs as it was before the sort
    img,              \* Option of [width, height] of the decoded image
    drawn,            \* draw calls made on img so far, in order
    response,         \* Option of the response body of the current request
    failed,           \* Option of the collaborator call whose unwrap() panicked
    calls,            \* per-request count of calls to each collaborator
    responses,        \* history: set of bodies analyze_image has returned
    block,            \* argument of get_text_for_block
    text,             \* result of get_text_for_block
    bbox              \* argument of draw_bounding_box / draw_text

vars == <<pc, op, document, blocks, block_map, key_map, value_map,
          key_value_pairs, unsorted, img, drawn, response, failed, calls,
          responses, block, text, bbox>>

----------------------------------------------------------------------------
(* Bounds of the model *)

MaxBlocks == 3      \* length of a block list given to extract_key_value_pairs
MaxDocBlocks == 3   \* length of the block list of a served image
MaxChildIds == 2    \* ids per relationship given to get_text_for_block
MaxPairs == 4       \* length of a list given to sort_key_value_pairs

(* Program constant: the thickness display_image passes to draw_bounding_box *)
Thickness == 3

(* Denominator of the fractions that stand for the f32 fields of BoundingBox *)
Den == 4 * 5

----------------------------------------------------------------------------
(* Option *)

None == <<>>
Some(x) == <<x>>

(* HashMap *)
EmptyMap == <<>>
insert(map, k, v) ==
    [x \in (DOMAIN map) \cup {k} |-> IF x = k THEN v ELSE map[x]]

(* All orders in which a HashMap with key set S may be iterated *)
iteration_orders(S) ==
    {s \in [1..Cardinality(S) -> S] :
        \A i, j \in 1..Cardinality(S) : i # j => s[i] # s[j]}

(* Sequences over S of length <= n *)
SeqUpTo(S, n) == UNION {[1..k -> S] : k \in 0..n}

----------------------------------------------------------------------------
(* Blocks (aws_sdk_textract::types::Block, the fields the program reads) *)

Box(left, top, width, height) ==
    [width |-> width, height |-> height, left |-> left, top |-> top]

Rel(type, ids) == [type |-> type, ids |-> ids]

MkBlock(id, block_type, entity_types, txt, geometry, relationships) ==
    [id |-> id, block_type |-> block_type, entity_types |-> entity_types,
     text |-> txt, bounding_box |-> geometry, relationships |-> relationships]

----------------------------------------------------------------------------
(* get_text_for_block *)

RECURSIVE trim_start(_)
trim_start(s) ==
    IF s # <<>> /\ Head(s) = " " THEN trim_start(Tail(s)) ELSE s

RECURSIVE trim_end(_)
trim_end(s) ==
    IF s # <<>> /\ s[Len(s)] = " "
    THEN trim_end(SubSeq(s, 1, Len(s) - 1))
    ELSE s

trim(s) == trim_end(trim_start(s))

(* the body of `for child_id in relationship.ids()` *)
push_word(acc, child_id, bmap) ==
    IF child_id \in DOMAIN bmap
    THEN LET word_block == bmap[child_id]
         IN IF word_block.block_type = "WORD"
            THEN IF word_block.text # None
                 THEN (acc \o word_block.text[1]) \o <<" ">>
                 ELSE acc
            ELSE acc
    ELSE acc

RECURSIVE push_children(_, _, _)
push_children(acc, ids, bmap) ==
    IF ids = <<>> THEN acc
    ELSE push_children(push_word(acc, Head(ids), bmap), Tail(ids), bmap)

RECURSIVE push_relationships(_, _, _)
push_relationships(acc, relationships, bmap) ==
    IF relationships = <<>> THEN acc
    ELSE LET relationship == Head(relationships)
         IN push_relationships(
                IF relationship.type = "CHILD"
                THEN push_children(acc, relationship.ids, bmap)
                ELSE acc,
                Tail(relationships), bmap)

get_text_for_block(b, bmap) ==
    trim(push_relationships(<<>>, b.relationships, bmap))

----------------------------------------------------------------------------
(* extract_key_value_pairs: the index loop *)

NoIndex == [block_map |-> EmptyMap, key_map |-> EmptyMap, value_map |-> EmptyMap]

(* mutant: the KEY entity test is dropped, every KeyValueSet is filed as a key *)
index_block_all_keys(idx, b) ==
    IF b.id = None THEN idx
    ELSE LET block_id == b.id[1]
         IN [block_map |-> insert(idx.block_map, block_id, b),
             key_map   |-> IF b.block_type = "KEY_VALUE_SET"
                           THEN insert(idx.key_map, block_id, b)
                           ELSE idx.key_map,
             value_map |-> idx.value_map]

(* the body of `for block in blocks` *)
index_block(idx, b) ==
    IF b.id = None THEN idx
    ELSE LET block_id == b.id[1]
         IN [block_map |-> insert(idx.block_map, block_id, b),
             key_map   |-> IF b.block_type = "KEY_VALUE_SET"
                              /\ "KEY" \in b.entity_types
                           THEN insert(idx.key_map, block_id, b)
                           ELSE idx.key_map,
             value_map |-> IF b.block_type = "KEY_VALUE_SET"
                              /\ "KEY" \notin b.entity_types
                           THEN insert(idx.value_map, block_id, b)
                           ELSE idx.value_map]

RECURSIVE index_blocks(_, _)
index_blocks(idx, bs) ==
    IF bs = <<>> THEN idx
    ELSE index_blocks(index_block(idx, Head(bs)), Tail(bs))

----------------------------------------------------------------------------
(* extract_key_value_pairs: the assembly loop *)

(* block.geometry().and_then(|g| g.bounding_box()).map(|bb| BoundingBox {..}) *)
bounding_box_of(b) ==
    IF b.bounding_box = None THEN None
    ELSE LET bb == b.bounding_box[1]
         IN Some([width |-> bb.width, height |-> bb.height,
                  left |-> bb.left, top |-> bb.top])

(* mutant: the value id is looked up in block_map instead of value_map *)
pairs_for_id_any_block(value_block_id, key_text, key_bounding_box, vmap, bmap) ==
    IF value_block_id \in DOMAIN bmap
    THEN LET value_block == bmap[value_block_id]
         IN << [key |-> key_text,
                value |-> get_text_for_block(value_block, bmap),
                key_bounding_box |-> key_bounding_box,
                value_bounding_box |-> bounding_box_of(value_block)] >>
    ELSE <<>>

(* the body of `for value_block_id in relationship.ids()` *)
pairs_for_id(value_block_id, key_text, key_bounding_box, vmap, bmap) ==
    IF value_block_id \in DOMAIN vmap
    THEN LET value_block == vmap[value_block_id]
         IN << [key |-> key_text,
                value |-> get_text_for_block(value_block, bmap),
                key_bounding_box |-> key_bounding_box,
                value_bounding_box |-> bounding_box_of(value_block)] >>
    ELSE <<>>

RECURSIVE pairs_for_ids(_, _, _, _, _)
pairs_for_ids(ids, key_text, key_bounding_box, vmap, bmap) ==
    IF ids = <<>> THEN <<>>
    ELSE pairs_for_id(Head(ids), key_text, key_bounding_box, vmap, bmap)
         \o pairs_for_ids(Tail(ids), key_text, key_bounding_box, vmap, bmap)

RECURSIVE pairs_for_relationships(_, _, _, _, _)
pairs_for_relationships(relationships, key_text, key_bounding_box, vmap, bmap) ==
    IF relationships = <<>> THEN <<>>
    ELSE LET relationship == Head(relationships)
         IN (IF relationship.type = "VALUE"
             THEN pairs_for_ids(relationship.ids, key_text, key_bounding_box,
                                vmap, bmap)
             ELSE <<>>)
            \o pairs_for_relationships(Tail(relationships), key_text,
                                       key_bounding_box, vmap, bmap)

(* the body of `for (_, key_block) in key_map` *)
pairs_for_key(key_block, vmap, bmap) ==
    pairs_for_relationships(key_block.relationships,
                            get_text_for_block(key_block, bmap),
                            bounding_box_of(key_block), vmap, bmap)

(* `for (_, key_block) in key_map`, the HashMap being iterated in `order` *)
RECURSIVE pairs_for_keys(_, _, _, _)
pairs_for_keys(order, kmap, vmap, bmap) ==
    IF order = <<>> THEN <<>>
    ELSE pairs_for_key(kmap[Head(order)], vmap, bmap)
         \o pairs_for_keys(Tail(order), kmap, vmap, bmap)

(* extract_key_value_pairs(blocks), key_map being iterated in `order` *)
extract_key_value_pairs(bs, order) ==
    LET idx == index_blocks(NoIndex, bs)
    IN pairs_for_keys(order, idx.key_map, idx.value_map, idx.block_map)

----------------------------------------------------------------------------
(* sort_key_value_pairs *)

(* f32::partial_cmp on ordinary numbers (no NaN) *)
partial_cmp(x, y) ==
    IF x < y THEN "Less" ELSE IF x > y THEN "Greater" ELSE "Equal"

(* Ordering::then_with *)
then_with(first, second) == IF first # "Equal" THEN first ELSE second

(* a.key_bounding_box.as_ref().or(a.value_bounding_box.as_ref()) *)
anchor(pair) ==
    IF pair.key_bounding_box # None
    THEN pair.key_bounding_box
    ELSE pair.value_bounding_box

(* mutant: the tie-break on left is dropped *)
compare_top_only(a, b) ==
    LET a_box == anchor(a)
        b_box == anchor(b)
    IN CASE a_box # None /\ b_box # None ->
                partial_cmp(a_box[1].top, b_box[1].top)
         [] a_box # None /\ b_box = None -> "Less"
         [] a_box = None /\ b_box # None -> "Greater"
         [] OTHER -> "Equal"

(* mutant: two position-less records compare Less instead of Equal *)
compare_none_less(a, b) ==
    LET a_box == anchor(a)
        b_box == anchor(b)
    IN CASE a_box # None /\ b_box # None ->
                then_with(partial_cmp(a_box[1].top, b_box[1].top),
                          partial_cmp(a_box[1].left, b_box[1].left))
         [] a_box # None /\ b_box = None -> "Less"
         [] a_box = None /\ b_box # None -> "Greater"
         [] OTHER -> "Less"

(* the closure given to sort_by *)
compare(a, b) ==
    LET a_box == anchor(a)
        b_box == anchor(b)
    IN CASE a_box # None /\ b_box # None ->
                then_with(partial_cmp(a_box[1].top, b_box[1].top),
                          partial_cmp(a_box[1].left, b_box[1].left))
         [] a_box # None /\ b_box = None -> "Less"
         [] a_box = None /\ b_box # None -> "Greater"
         [] OTHER -> "Equal"

(* slice::sort_by is a stable sort: each element is placed after every      *)
(* earlier element it does not compare Less than                            *)
RECURSIVE insert_sorted(_, _)
insert_sorted(sorted, x) ==
    IF sorted = <<>> THEN <<x>>
    ELSE LET last == sorted[Len(sorted)]
         IN IF compare(x, last) = "Less"
            THEN Append(insert_sorted(SubSeq(sorted, 1, Len(sorted) - 1), x), last)
            ELSE Append(sorted, x)

RECURSIVE sort_by(_, _)
sort_by(sorted, rest) ==
    IF rest = <<>> THEN sorted
    ELSE sort_by(insert_sorted(sorted, Head(rest)), Tail(rest))

sort_key_value_pairs(pairs) == sort_by(<<>>, pairs)

----------------------------------------------------------------------------
(* draw_bounding_box, draw_text and the drawing loop of display_image *)

Blue == <<0, 0, 255>>
Red == <<255, 0, 0>>
Black == <<0, 0, 0>>

(* (fraction * pixels as f32) as i32 / as u32: truncation toward zero *)
to_pixels(fraction, pixels) == (fraction * pixels) \div Den

(* Rect::at(..).of_size(..) of the base rectangle, before of_size's asserts *)
base_rect(image, bb) ==
    [left   |-> to_pixels(bb.left, image.width),
     top    |-> to_pixels(bb.top, image.height),
     width  |-> to_pixels(bb.width, image.width),
     height |-> to_pixels(bb.height, image.height)]

(* Rect::of_size asserts width > 0 and height > 0 and panics otherwise *)
of_size_panics(width, height) == ~(width > 0 /\ height > 0)

expanded_rect(base, offset) ==
    [left   |-> base.left - offset,
     top    |-> base.top - offset,
     width  |-> base.width + 2 * offset,
     height |-> base.height + 2 * offset]

(* draw_bounding_box: the draw calls it makes, or a panic before any *)
draw_bounding_box(image, bb, color, thickness) ==
    LET base == base_rect(image, bb)
    IN IF of_size_panics(base.width, base.height)
       THEN [panicked |-> TRUE, ops |-> <<>>]
       ELSE [panicked |-> FALSE,
             ops |-> [n \in 1..thickness |->
                        [kind |-> "hollow_rect",
                         rect |-> expanded_rect(base, n - 1),
                         color |-> color]]]

draw_text(image, txt, bb, color) ==
    [kind |-> "text",
     x |-> to_pixels(bb.left, image.width),
     y |-> to_pixels(bb.top, image.height),
     text |-> txt,
     color |-> color]

(* `if let Some(box) = ... { draw_bounding_box(..); draw_text(..); }` *)
draw_box_and_text(acc, image, maybe_box, txt, box_color, text_color) ==
    IF acc.panicked \/ maybe_box = None THEN acc
    ELSE LET r == draw_bounding_box(image, maybe_box[1], box_color, Thickness)
         IN IF r.panicked
            THEN [panicked |-> TRUE, ops |-> acc.ops]
            ELSE [panicked |-> FALSE,
                  ops |-> (acc.ops \o r.ops)
                          \o <<draw_text(image, txt, maybe_box[1], text_color)>>]

(* `for pair in key_value_pairs` of display_image *)
RECURSIVE draw_pairs(_, _, _)
draw_pairs(acc, image, pairs) ==
    IF pairs = <<>> \/ acc.panicked THEN acc
    ELSE LET pair == Head(pairs)
             k == draw_box_and_text(acc, image, pair.key_bounding_box,
                                    pair.key, Blue, Black)
             v == draw_box_and_text(k, image, pair.value_bounding_box,
                                    pair.value, Red, Red)
         IN draw_pairs(v, image, Tail(pairs))

----------------------------------------------------------------------------
(* Inputs *)

Word(id, txt) == MkBlock(id, "WORD", {}, txt, None, <<>>)
Line(id, txt) == MkBlock(id, "LINE", {}, txt, None, <<>>)
Key(id, geometry, relationships) ==
    MkBlock(id, "KEY_VALUE_SET", {"KEY"}, None, geometry, relationships)
Value(id, geometry, relationships) ==
    MkBlock(id, "KEY_VALUE_SET", {"VALUE"}, None, geometry, relationships)

(* Block lists given to extract_key_value_pairs: ids "A", "B", "W" and no  *)
(* id; "Z" is referenced and never present; ids may repeat                 *)
KeyRels1 == << Rel("CHILD", <<"W">>), Rel("VALUE", <<"B", "Z", "B">>) >>
KeyRels2 == << Rel("VALUE", <<"A">>), Rel("VALUE", <<"B">>),
               Rel("CHILD", <<"W", "A">>) >>
BoxK == Box(2, 4, 6, 1)
BoxV == Box(10, 4, 4, 1)

ExtractBlocks ==
    {Key(id, Some(BoxK), r) :
        id \in {Some("A"), Some("B"), None}, r \in {KeyRels1, KeyRels2}}
    \cup {Key(Some("A"), None, KeyRels1)}
    \cup {Value(id, Some(BoxV), <<Rel("CHILD", <<"W">>)>>) :
            id \in {Some("A"), Some("B"), None}}
    \cup {Value(Some("B"), None, <<>>)}
    \cup {Word(Some("W"), Some(<<"a">>)), Word(Some("A"), Some(<<"b">>))}

ExtractInputs == SeqUpTo(ExtractBlocks, MaxBlocks)

(* Arguments of get_text_for_block: "W1" is a Word whose text varies, "W2" *)
(* a Word, "L" a Line with text, "Z" is absent from block_map              *)
WordTexts == {None, Some(<<>>), Some(<<"a">>), Some(<<"b", "c">>)}
TextMap(t) ==
    [id \in {"W1", "W2", "L"} |->
        CASE id = "W1" -> Word(Some("W1"), t)
          [] id = "W2" -> Word(Some("W2"), Some(<<"d">>))
          [] OTHER -> Line(Some("L"), Some(<<"e">>))]
TextMaps == {TextMap(t) : t \in WordTexts}
TextEdges ==
    {Rel(type, ids) : type \in {"CHILD", "VALUE"},
                      ids \in SeqUpTo({"W1", "W2", "L", "Z"}, MaxChildIds)}
TextBlocks ==
    {Key(Some("K"), None, relationships) :
        relationships \in SeqUpTo(TextEdges, 2)}

(* Lists given to sort_key_value_pairs *)
SortPairs ==
    {[key |-> k, value |-> <<>>, key_bounding_box |-> kb,
      value_bounding_box |-> vb] :
        k \in {<<"p">>, <<"q">>},
        kb \in {None, Some(Box(0, 1, 1, 1)), Some(Box(1, 0, 1, 1))},
        vb \in {None, Some(Box(0, 0, 1, 1))}}
SortInputs == SeqUpTo(SortPairs, MaxPairs)

(* Arguments of draw_bounding_box: fractions 0, .05, .1, .2, .3 and 1 *)
Fractions == {0, 1, 2, 4, 6, Den}
DrawBoxes ==
    {Box(l, t, w, h) : l \in Fractions, t \in Fractions,
                       w \in Fractions, h \in Fractions}
Image(width, height) == [width |-> width, height |-> height]
DrawImages == {Image(1, 1), Image(3, 2), Image(1000, 800)}

(* The images served: what Textract returns for them and what they decode to *)
DocBlocks ==
    { Word(Some("W1"), Some(<<"N", "o">>)),
      Key(Some("K1"), Some(Box(2, 4, 6, 1)),
          <<Rel("CHILD", <<"W1">>), Rel("VALUE", <<"V1", "V2">>)>>),
      Key(Some("K2"), Some(Box(2, 4, 8, 1)), <<Rel("VALUE", <<"V1">>)>>),
      Key(Some("K3"), None, <<Rel("VALUE", <<"V1", "V2">>)>>),
      Value(Some("V1"), Some(Box(10, 12, 4, 2)), <<>>),
      Value(Some("V2"), Some(Box(10, 2, 4, 2)), <<>>) }
Documents == SeqUpTo(DocBlocks, MaxDocBlocks)
DecodedImages == {Image(1000, 800), Image(10, 10)}

Collaborators == {"get_object", "collect", "load_from_memory", "analyze_document"}
NoCalls == [c \in Collaborators |-> 0]
called(c) == [calls EXCEPT ![c] = @ + 1]

----------------------------------------------------------------------------
(* Initial states *)

InitState(p, doc, bs, bmap, pairs, image, b, bb) ==
    /\ pc = p
    /\ op = "none"
    /\ document = doc
    /\ blocks = bs
    /\ block_map = bmap
    /\ key_map = EmptyMap
    /\ value_map = EmptyMap
    /\ key_value_pairs = pairs
    /\ unsorted = <<>>
    /\ img = image
    /\ drawn = <<>>
    /\ response = None
    /\ failed = None
    /\ calls = NoCalls
    /\ responses = {}
    /\ block = b
    /\ text = None
    /\ bbox = bb

(* the server holds one image and no request is running *)
Init ==
    \E doc \in Documents :
        InitState("idle", doc, <<>>, EmptyMap, <<>>, None, None, None)

(* extract_key_value_pairs is about to be called on a block list *)
InitExtract ==
    \E bs \in ExtractInputs :
        InitState("extract", <<>>, bs, EmptyMap, <<>>, None, None, None)

(* get_text_for_block is about to be called on a block and an index *)
InitText ==
    \E b \in TextBlocks, bmap \in TextMaps :
        InitState("get_text", <<>>, <<>>, bmap, <<>>, None, Some(b), None)

(* sort_key_value_pairs is about to be called on a list *)
InitSort ==
    \E pairs \in SortInputs :
        InitState("sort", <<>>, <<>>, EmptyMap, pairs, None, None, None)

(* draw_bounding_box and draw_text are about to be called on an image *)
InitDraw ==
    \E image \in DrawImages, bb \in DrawBoxes :
        InitState("draw_bounding_box", <<>>, <<>>, EmptyMap, <<>>,
                  Some(image), None, Some(bb))

----------------------------------------------------------------------------
(* Actions: the functions *)

fnvars == <<document, responses, block, bbox>>

ExtractKeyValuePairs ==
    /\ pc = "extract"
    /\ LET idx == index_blocks(NoIndex, blocks)
       IN /\ block_map' = idx.block_map
          /\ key_map' = idx.key_map
          /\ value_map' = idx.value_map
          /\ \E order \in iteration_orders(DOMAIN idx.key_map) :
                key_value_pairs' = extract_key_value_pairs(blocks, order)
    /\ pc' = CASE op = "analyze" -> "sort"
               [] op = "display" -> "draw"
               [] OTHER -> "extracted"
    /\ UNCHANGED <<op, blocks, unsorted, img, drawn, response, failed, calls,
                   text, fnvars>>

SortKeyValuePairs ==
    /\ pc = "sort"
    /\ unsorted' = key_value_pairs
    /\ key_value_pairs' = sort_key_value_pairs(key_value_pairs)
    /\ pc' = IF op = "analyze" THEN "respond" ELSE "sorted"
    /\ UNCHANGED <<op, blocks, block_map, key_map, value_map, img, drawn,
                   response, failed, calls, text, fnvars>>

GetTextForBlock ==
    /\ pc = "get_text"
    /\ text' = Some(get_text_for_block(block[1], block_map))
    /\ pc' = "text_done"
    /\ UNCHANGED <<op, blocks, block_map, key_map, value_map, key_value_pairs,
                   unsorted, img, drawn, response, failed, calls, fnvars>>

DrawBoundingBox ==
    /\ pc = "draw_bounding_box"
    /\ LET r == draw_bounding_box(img[1], bbox[1], Blue, Thickness)
       IN /\ drawn' = drawn \o r.ops
          /\ pc' = IF r.panicked THEN "panicked" ELSE "draw_text"
    /\ UNCHANGED <<op, blocks, block_map, key_map, value_map, key_value_pairs,
                   unsorted, img, response, failed, calls, text, fnvars>>

DrawText ==
    /\ pc = "draw_text"
    /\ drawn' = Append(drawn, draw_text(img[1], <<"k">>, bbox[1], Black))
    /\ pc' = "drawn"
    /\ UNCHANGED <<op, blocks, block_map, key_map, value_map, key_value_pairs,
                   unsorted, img, response, failed, calls, text, fnvars>>

----------------------------------------------------------------------------
(* Actions: the handlers, split at their await points *)

(* a request arrives; every request starts from nothing but the AppState *)
start(handler, first) ==
    /\ pc \in {"idle", "responded", "panicked"}
    /\ op' = handler
    /\ pc' = first
    /\ blocks' = <<>>
    /\ block_map' = EmptyMap
    /\ key_map' = EmptyMap
    /\ value_map' = EmptyMap
    /\ key_value_pairs' = <<>>
    /\ unsorted' = <<>>
    /\ img' = None
    /\ drawn' = <<>>
    /\ response' = None
    /\ failed' = None
    /\ calls' = NoCalls

StartAnalyze ==
    /\ start("analyze", "analyze_document")
    /\ UNCHANGED <<text, fnvars>>

StartDisplay ==
    /\ start("display", "get_object")
    /\ UNCHANGED <<text, fnvars>>

(* collaborator c returned Ok and the handler moves on *)
unwrap_ok(c, next) ==
    /\ pc = c
    /\ calls' = called(c)
    /\ pc' = next

(* collaborator c returned Err: unwrap() panics and the handler is gone *)
unwrap_err(c) ==
    /\ pc = c
    /\ calls' = called(c)
    /\ failed' = Some(c)
    /\ pc' = "panicked"

GetObjectOk ==
    /\ unwrap_ok("get_object", "collect")
    /\ UNCHANGED <<op, blocks, block_map, key_map, value_map, key_value_pairs,
                   unsorted, img, drawn, response, failed, text, fnvars>>

GetObjectErr ==
    /\ unwrap_err("get_object")
    /\ UNCHANGED <<op, blocks, block_map, key_map, value_map, key_value_pairs,
                   unsorted, img, drawn, response, text, fnvars>>

CollectOk ==
    /\ unwrap_ok("collect", "load_from_memory")
    /\ UNCHANGED <<op, blocks, block_map, key_map, value_map, key_value_pairs,
                   unsorted, img, drawn, response, failed, text, fnvars>>

CollectErr ==
    /\ unwrap_err("collect")
    /\ UNCHANGED <<op, blocks, block_map, key_map, value_map, key_value_pairs,
                   unsorted, img, drawn, response, text, fnvars>>

LoadFromMemoryOk ==
    /\ unwrap_ok("load_from_memory", "analyze_document")
    /\ \E image \in DecodedImages : img' = Some(image)
    /\ UNCHANGED <<op, blocks, block_map, key_map, value_map, key_value_pairs,
                   unsorted, drawn, response, failed, text, fnvars>>

LoadFromMemoryErr ==
    /\ unwrap_err("load_from_memory")
    /\ UNCHANGED <<op, blocks, block_map, key_map, value_map, key_value_pairs,
                   unsorted, img, drawn, response, text, fnvars>>

AnalyzeDocumentOk ==
    /\ unwrap_ok("analyze_document", "extract")
    /\ blocks' = document
    /\ UNCHANGED <<op, block_map, key_map, value_map, key_value_pairs,
                   unsorted, img, drawn, response, failed, text, fnvars>>

(* mutant: a failed analysis is taken for an empty block list *)
AnalyzeDocumentErr_defaulted ==
    /\ pc = "analyze_document"
    /\ calls' = called("analyze_document")
    /\ failed' = Some("analyze_document")
    /\ blocks' = <<>>
    /\ pc' = "extract"
    /\ UNCHANGED <<op, block_map, key_map, value_map, key_value_pairs,
                   unsorted, img, drawn, response, text, fnvars>>

AnalyzeDocumentErr ==
    /\ unwrap_err("analyze_document")
    /\ UNCHANGED <<op, blocks, block_map, key_map, value_map, key_value_pairs,
                   unsorted, img, drawn, response, text, fnvars>>

(* display_image, lines 115-128: the loop over the pairs *)
DrawAnnotations ==
    /\ pc = "draw"
    /\ LET r == draw_pairs([panicked |-> FALSE, ops |-> <<>>], img[1],
                           key_value_pairs)
       IN /\ drawn' = r.ops
          /\ pc' = IF r.panicked THEN "panicked" ELSE "respond"
    /\ UNCHANGED <<op, blocks, block_map, key_map, value_map, key_value_pairs,
                   unsorted, img, response, failed, calls, text, fnvars>>

(* analyze_image returns Json(key_value_pairs) *)
RespondJson ==
    /\ pc = "respond"
    /\ op = "analyze"
    /\ response' = Some([kind |-> "json", body |-> key_value_pairs])
    /\ responses' = responses \cup {key_value_pairs}
    /\ pc' = "responded"
    /\ UNCHANGED <<op, document, blocks, block_map, key_map, value_map,
                   key_value_pairs, unsorted, img, drawn, failed, calls,
                   block, text, bbox>>

(* display_image returns the PNG of the annotated image *)
RespondPng ==
    /\ pc = "respond"
    /\ op = "display"
    /\ response' = Some([kind |-> "png", width |-> img[1].width,
                         height |-> img[1].height, overlays |-> drawn])
    /\ pc' = "responded"
    /\ UNCHANGED <<op, blocks, block_map, key_map, value_map, key_value_pairs,
                   unsorted, img, drawn, failed, calls, text, fnvars>>

----------------------------------------------------------------------------
(* Specifications *)

Next ==
    \/ StartAnalyze
    \/ StartDisplay
    \/ GetObjectOk
    \/ GetObjectErr
    \/ CollectOk
    \/ CollectErr
    \/ LoadFromMemoryOk
    \/ LoadFromMemoryErr
    \/ AnalyzeDocumentOk
    \/ AnalyzeDocumentErr
    \/ ExtractKeyValuePairs
    \/ SortKeyValuePairs
    \/ DrawAnnotations
    \/ RespondJson
    \/ RespondPng

Spec == Init /\ [][Next]_vars

NextExtract == ExtractKeyValuePairs
SpecExtract == InitExtract /\ [][NextExtract]_vars

NextText == GetTextForBlock
SpecText == InitText /\ [][NextText]_vars

NextSort == SortKeyValuePairs
SpecSort == InitSort /\ [][NextSort]_vars

NextDraw == DrawBoundingBox \/ DrawText
SpecDraw == InitDraw /\ [][NextDraw]_vars

----------------------------------------------------------------------------
(* Vocabulary of the properties *)

Range(f) == {f[x] : x \in DOMAIN f}
Count(r, list) == Cardinality({n \in DOMAIN list : list[n] = r})

IsKeyBlock(b) == b.block_type = "KEY_VALUE_SET" /\ "KEY" \in b.entity_types
IsValueBlock(b) == b.block_type = "KEY_VALUE_SET" /\ "KEY" \notin b.entity_types
(* what an index files: "any" block, a "key" block or a "value" block *)
Files(kind, b) ==
    CASE kind = "key" -> IsKeyBlock(b)
      [] kind = "value" -> IsValueBlock(b)
      [] OTHER -> TRUE

IdsOf(bs) == {bs[n].id[1] : n \in {m \in DOMAIN bs : bs[m].id # None}}

(* every block has an id and no two blocks share one *)
UniqueIds(bs) ==
    /\ \A n \in DOMAIN bs : bs[n].id # None
    /\ \A n, m \in DOMAIN bs : n # m => bs[n].id # bs[m].id

(* no two blocks that have an id share it *)
NoDuplicateIds(bs) ==
    \A n, m \in DOMAIN bs : (n # m /\ bs[n].id # None) => bs[n].id # bs[m].id

(* positions of the blocks of bs that carry id and are of the kind *)
Holders(bs, id, kind) ==
    {n \in DOMAIN bs : bs[n].id = Some(id) /\ Files(kind, bs[n])}
LastHolder(bs, id, kind) ==
    CHOOSE n \in Holders(bs, id, kind) : \A m \in Holders(bs, id, kind) : m <= n

(* the block carrying id, in a list with unique ids *)
ById(bs) == [id \in IdsOf(bs) |-> bs[CHOOSE n \in DOMAIN bs : bs[n].id = Some(id)]]

(* <<n, e, i>>: key block n, its VALUE edge e, position i of an id that a  *)
(* value block of bs carries                                               *)
ValueOccurrences(bs) ==
    {occ \in UNION {UNION {{<<n, e, i>> : i \in DOMAIN bs[n].relationships[e].ids} :
                            e \in DOMAIN bs[n].relationships} :
                    n \in DOMAIN bs} :
        /\ IsKeyBlock(bs[occ[1]])
        /\ bs[occ[1]].relationships[occ[2]].type = "VALUE"
        /\ Holders(bs, bs[occ[1]].relationships[occ[2]].ids[occ[3]],
                   "value") # {}}

RecordOf(bs, occ) ==
    LET k == bs[occ[1]]
        v == ById(bs)[k.relationships[occ[2]].ids[occ[3]]]
    IN [key |-> get_text_for_block(k, ById(bs)),
        value |-> get_text_for_block(v, ById(bs)),
        key_bounding_box |-> k.bounding_box,
        value_bounding_box |-> v.bounding_box]

----------------------------------------------------------------------------
(* C1: for a block list with unique ids, extract_key_value_pairs returns,   *)
(* as a collection with multiplicities, exactly one record (text(k),       *)
(* box(k), text(v), box(v)) per key block k and per occurrence, in k's     *)
(* VALUE edges, of an id that a value block carries; nothing else.         *)
C1_ExactlyTheResolvablePairs ==
    (pc = "extracted" /\ UniqueIds(blocks)) =>
        LET occs == ValueOccurrences(blocks)
            expected == {RecordOf(blocks, occ) : occ \in occs}
        IN /\ Len(key_value_pairs) = Cardinality(occs)
           /\ \A r \in expected \cup Range(key_value_pairs) :
                Count(r, key_value_pairs)
                    = Cardinality({occ \in occs : RecordOf(blocks, occ) = r})

(* a key whose VALUE edge names "B" twice and the dangling "Z": two equal   *)
(* records, none for "Z"                                                   *)
C1_Witness ==
    /\ pc = "extracted"
    /\ UniqueIds(blocks)
    /\ Len(blocks) = 3
    /\ Len(key_value_pairs) = 2
    /\ key_value_pairs[1] = key_value_pairs[2]
    /\ key_value_pairs[1].key = <<"a">>
    /\ key_value_pairs[1].value_bounding_box = Some(BoxV)

----------------------------------------------------------------------------
(* C9 as claimed: after indexing any block list, duplicate ids allowed, an  *)
(* id is in key_blocks iff by_id's block for it is a KEY KeyValueSet, in    *)
(* value_blocks iff by_id's block for it is a KeyValueSet without KEY, the  *)
(* two never share an id, and a block without an id is in no index.         *)
IndexesAgree ==
    /\ \A id \in IdsOf(blocks) :
        /\ id \in DOMAIN key_map
            <=> (id \in DOMAIN block_map /\ IsKeyBlock(block_map[id]))
        /\ id \in DOMAIN value_map
            <=> (id \in DOMAIN block_map /\ IsValueBlock(block_map[id]))
    /\ (DOMAIN key_map) \cap (DOMAIN value_map) = {}

HoldsOnlyItsOwnIds(map) ==
    /\ DOMAIN map \subseteq IdsOf(blocks)
    /\ \A id \in DOMAIN map : map[id].id = Some(id)

C9_IndexesAgreeOnAnyList ==
    pc = "extracted" =>
        /\ IndexesAgree
        /\ HoldsOnlyItsOwnIds(block_map)
        /\ HoldsOnlyItsOwnIds(key_map)
        /\ HoldsOnlyItsOwnIds(value_map)

(* C9 amended: each index is last-writer-wins on its own. An id is in       *)
(* by_id iff a block carries it, in key_blocks iff a KEY KeyValueSet        *)
(* carries it, in value_blocks iff a KeyValueSet without KEY carries it,    *)
(* and each index holds the last such block. When no two blocks share an    *)
(* id the three agree as claimed; a block without an id is in no index.     *)
LastWriterWins(map, kind) ==
    \A id \in IdsOf(blocks) \cup DOMAIN map :
        /\ id \in DOMAIN map <=> Holders(blocks, id, kind) # {}
        /\ id \in DOMAIN map => map[id] = blocks[LastHolder(blocks, id, kind)]

C9_EachIndexLastWriterWins ==
    pc = "extracted" =>
        /\ LastWriterWins(block_map, "any")
        /\ LastWriterWins(key_map, "key")
        /\ LastWriterWins(value_map, "value")
        /\ NoDuplicateIds(blocks) => IndexesAgree
        /\ HoldsOnlyItsOwnIds(block_map)
        /\ HoldsOnlyItsOwnIds(key_map)
        /\ HoldsOnlyItsOwnIds(value_map)

(* an id carried by a key block, then by a value block, with an id-less     *)
(* block in the list                                                        *)
C9_Witness ==
    /\ pc = "extracted"
    /\ ~NoDuplicateIds(blocks)
    /\ \E n \in DOMAIN blocks : blocks[n].id = None
    /\ (DOMAIN key_map) \cap (DOMAIN value_map) # {}

----------------------------------------------------------------------------
(* C3: after sort_key_value_pairs every record with an anchor (its key box, *)
(* else its value box) precedes every record without one, and of two        *)
(* anchored records the earlier has the smaller top, or the same top and a  *)
(* smaller or equal left.                                                   *)
InReadingOrder(pairs) ==
    \A i, j \in DOMAIN pairs :
        i < j =>
            LET a == anchor(pairs[i])
                b == anchor(pairs[j])
            IN /\ b # None => a # None
               /\ (a # None /\ b # None) =>
                    \/ a[1].top < b[1].top
                    \/ (a[1].top = b[1].top /\ a[1].left <= b[1].left)

C3_SortedIntoReadingOrder ==
    pc = "sorted" => InReadingOrder(key_value_pairs)

(* the sort moved an anchored record in front of a position-less one and    *)
(* used the left tie-break between a key anchor and a value anchor          *)
C3_Witness ==
    /\ pc = "sorted"
    /\ Len(unsorted) = 3
    /\ anchor(unsorted[1]) = None
    /\ unsorted[2].key_bounding_box = Some(Box(1, 0, 1, 1))
    /\ unsorted[3].key_bounding_box = None
    /\ unsorted[3].value_bounding_box = Some(Box(0, 0, 1, 1))
    /\ key_value_pairs = <<unsorted[3], unsorted[2], unsorted[1]>>

----------------------------------------------------------------------------
(* C4: sort_key_value_pairs is a stable permutation: the sorted list holds  *)
(* the same records with the same multiplicities, and records that compare  *)
(* equal (both position-less, or the same anchor top and left) keep their   *)
(* relative order.                                                          *)
ComparesEqual(a, b) ==
    \/ anchor(a) = None /\ anchor(b) = None
    \/ /\ anchor(a) # None
       /\ anchor(b) # None
       /\ anchor(a)[1].top = anchor(b)[1].top
       /\ anchor(a)[1].left = anchor(b)[1].left

C4_StablePermutation ==
    pc = "sorted" =>
        /\ Len(key_value_pairs) = Len(unsorted)
        /\ \A r \in Range(unsorted) \cup Range(key_value_pairs) :
            /\ Count(r, key_value_pairs) = Count(r, unsorted)
            /\ SelectSeq(key_value_pairs, LAMBDA x : ComparesEqual(x, r))
                = SelectSeq(unsorted, LAMBDA x : ComparesEqual(x, r))

(* two different position-less records and two different records with the  *)
(* same anchor, around a record the sort had to move                        *)
C4_Witness ==
    /\ pc = "sorted"
    /\ key_value_pairs # unsorted
    /\ \E i, j \in DOMAIN unsorted :
        /\ i < j
        /\ unsorted[i] # unsorted[j]
        /\ anchor(unsorted[i]) = None
        /\ anchor(unsorted[j]) = None
    /\ \E i, j \in DOMAIN key_value_pairs :
        /\ i < j
        /\ key_value_pairs[i] # key_value_pairs[j]
        /\ anchor(key_value_pairs[i]) # None
        /\ ComparesEqual(key_value_pairs[i], key_value_pairs[j])

----------------------------------------------------------------------------
(* C2: get_text_for_block returns the single-space join, in edge and id     *)
(* order, of the texts of the CHILD ids that resolve in by_id to a Word     *)
(* with non-empty text; every other id contributes nothing, not even a      *)
(* separator; the result has no leading or trailing space and no two        *)
(* consecutive spaces.                                                      *)
RECURSIVE ChildIds(_)
ChildIds(relationships) ==
    IF relationships = <<>> THEN <<>>
    ELSE (IF Head(relationships).type = "CHILD"
          THEN Head(relationships).ids ELSE <<>>)
         \o ChildIds(Tail(relationships))

IsWordWithText(id, bmap) ==
    /\ id \in DOMAIN bmap
    /\ bmap[id].block_type = "WORD"
    /\ bmap[id].text # None
    /\ bmap[id].text[1] # <<>>

RECURSIVE JoinWords(_, _)
JoinWords(ids, bmap) ==
    IF ids = <<>> THEN <<>>
    ELSE LET rest == JoinWords(Tail(ids), bmap)
         IN IF ~IsWordWithText(Head(ids), bmap) THEN rest
            ELSE IF rest = <<>> THEN bmap[Head(ids)].text[1]
            ELSE (bmap[Head(ids)].text[1] \o <<" ">>) \o rest

C2_SingleSpaceJoin ==
    pc = "text_done" =>
        LET t == text[1]
        IN /\ t = JoinWords(ChildIds(block[1].relationships), block_map)
           /\ t # <<>> => (t[1] # " " /\ t[Len(t)] # " ")
           /\ \A n \in 1..(Len(t) - 1) : ~(t[n] = " " /\ t[n + 1] = " ")

----------------------------------------------------------------------------
(* C7: on a W x H image draw_bounding_box with thickness 3 draws exactly    *)
(* three hollow rectangles, the i-th (i = 0, 1, 2) with top-left            *)
(* (trunc(left*W) - i, trunc(top*H) - i) and size (trunc(width*W) + 2i,     *)
(* trunc(height*H) + 2i), and the label is anchored at (trunc(left*W),      *)
(* trunc(top*H)).                                                           *)
Trunc(numerator, pixels) ==
    CHOOSE q \in 0..pixels : q * Den <= numerator * pixels
                             /\ numerator * pixels < (q + 1) * Den

C7_ThreeConcentricRectangles ==
    pc \in {"draw_text", "drawn", "panicked"} =>
        LET W == img[1].width
            H == img[1].height
            bb == bbox[1]
        IN /\ Len(drawn) >= 3
           /\ \A i \in 0..2 :
                /\ drawn[i + 1].kind = "hollow_rect"
                /\ drawn[i + 1].rect =
                    [left   |-> Trunc(bb.left, W) - i,
                     top    |-> Trunc(bb.top, H) - i,
                     width  |-> Trunc(bb.width, W) + 2 * i,
                     height |-> Trunc(bb.height, H) + 2 * i]
           /\ \A n \in 4..Len(drawn) : drawn[n].kind # "hollow_rect"
           /\ pc = "drawn" =>
                /\ Len(drawn) = 4
                /\ drawn[4].kind = "text"
                /\ drawn[4].x = Trunc(bb.left, W)
                /\ drawn[4].y = Trunc(bb.top, H)

(* C10: for every image of at least 1x1 pixels and every box with fields in *)
(* [0,1], draw_bounding_box completes: every rectangle it constructs has    *)
(* width >= 1 and height >= 1, so Rect::of_size never aborts.               *)
C10_DrawNeverAborts ==
    /\ pc # "panicked"
    /\ \A n \in DOMAIN drawn :
        drawn[n].kind = "hollow_rect" =>
            drawn[n].rect.width >= 1 /\ drawn[n].rect.height >= 1

----------------------------------------------------------------------------
(* C5: for one block list, any two runs of analyze_image return the same    *)
(* records in the same order, whatever order the key HashMap is iterated    *)
(* in, ties under the comparator included.                                  *)
C5_AnalyzeIsDeterministic == Cardinality(responses) <= 1

(* C6: display_image draws from the pair list in reading order: the list    *)
(* its drawing loop consumes has been through the sorter, as the list       *)
(* analyze_image returns has.                                               *)
C6_RendererConsumesSortedList ==
    (op = "display" /\ pc \in {"draw", "respond", "responded"}) =>
        /\ InReadingOrder(key_value_pairs)
        /\ key_value_pairs = sort_key_value_pairs(key_value_pairs)

----------------------------------------------------------------------------
(* C8: when a collaborator call fails (analyze_document in either handler,  *)
(* get_object, collect or load_from_memory in display_image) the request    *)
(* fails as a whole: no response body, nothing drawn or assembled after     *)
(* the failure, no second call to any collaborator; analyze_image never     *)
(* fetches or decodes the image.                                            *)
C8_CollaboratorFailureFailsRequest ==
    /\ failed # None =>
        /\ pc = "panicked"
        /\ response = None
        /\ key_value_pairs = <<>>
        /\ drawn = <<>>
    /\ response # None => failed = None /\ calls["analyze_document"] = 1
    /\ \A c \in Collaborators : calls[c] <= 1
    /\ op = "analyze" =>
        /\ calls["get_object"] = 0
        /\ calls["collect"] = 0
        /\ calls["load_from_memory"] = 0
        /\ img = None

(* the analysis fails in display_image after the image was fetched and      *)
(* decoded                                                                  *)
C8_Witness ==
    /\ op = "display"
    /\ failed = Some("analyze_document")
    /\ img # None
    /\ calls = [c \in Collaborators |-> 1]

====
